---- MODULE Spec2Model ----
(***************************************************************************)
(* The three-stage pipeline of bench/debug/python/04-concurrency/stages.py *)
(* Stage1 (producer), Stage2 (transform) and Stage3 (consumer) run as      *)
(* three threads connected by the queues stage1_to_stage2,                 *)
(* stage2_to_stage3 and feedback of the queue manager.  One action per     *)
(* source line of each run method; the program counters pc1, pc2, pc3 hold *)
(* the line each thread executes next.                                     *)
(***************************************************************************)
EXTENDS Integers, Sequences, FiniteSets, TLC

\* Bounds of the model: the item counts and queue capacities explored.
MaxCount == 4
MaxCap == 2

VARIABLES
    num_items,          \* Stage1.num_items
    maxsize,            \* capacity of each of the three queues
    stage1_to_stage2,   \* queue_mgr.stage1_to_stage2
    stage2_to_stage3,   \* queue_mgr.stage2_to_stage3
    feedback,           \* queue_mgr.feedback
    done_producing,     \* queue_mgr.done_producing
    done_processing,    \* queue_mgr.done_processing
    pc1, i, s1_item, s1_fb, feedback_count,   \* Stage1.run and Stage1 fields
    pc2, s2_item, s2_feedback, processed,     \* Stage2.run and Stage2 fields
    pc3, s3_item, results,                    \* Stage3.run and Stage3 fields
    fb_sent,            \* history: feedback records put on feedback, in order
    s2_got,             \* history: number of work items Stage2 dequeued
    s2_sent,            \* history: number of work items put on stage2_to_stage3
    ch1_log,            \* history: everything put on stage1_to_stage2, in order
    ch2_log             \* history: everything put on stage2_to_stage3, in order

vars == << num_items, maxsize, stage1_to_stage2, stage2_to_stage3, feedback,
           done_producing, done_processing,
           pc1, i, s1_item, s1_fb, feedback_count,
           pc2, s2_item, s2_feedback, processed,
           pc3, s3_item, results, fb_sent, s2_got, s2_sent,
           ch1_log, ch2_log >>

qvars == << stage1_to_stage2, stage2_to_stage3, feedback >>
flagvars == << done_producing, done_processing >>
s1vars == << pc1, i, s1_item, s1_fb, feedback_count >>
s2vars == << pc2, s2_item, s2_feedback, processed >>
s3vars == << pc3, s3_item, results >>
histvars == << fb_sent, s2_got, s2_sent >>
logvars == << ch1_log, ch2_log >>
paramvars == << num_items, maxsize >>

\* Python's None: the sentinel of the forward queues and the value of a
\* local that is not bound yet.
None == [none |-> TRUE]

\* The dict Stage1 builds at line 15.  The key "processed" is absent until
\* Stage2 sets it; absent is modelled as FALSE.
NewItem(n) == [id |-> n, value |-> n * 10, adjustments |-> << >>, processed |-> FALSE]

\* Line 45 without the "+ 1".
Transform_NoIncrement(v) == v * 2

\* The transformation of line 45.
Transform(v) == v * 2 + 1

\* Lines 50-54 with the processed counter taken for the item id.
NewFeedback_CounterAsId(item, cnt) == [from_item |-> cnt, suggestion |-> "increase_rate", metric |-> cnt]

\* The dict Stage2 builds at lines 50-54.
NewFeedback(item, cnt) == [from_item |-> item.id, suggestion |-> "increase_rate", metric |-> cnt]

\* queue.Queue: put blocks while the queue holds maxsize elements, get blocks
\* while it is empty, empty() never blocks.
QFull(q) == Len(q) >= maxsize
QEmpty(q) == Len(q) = 0

\* The queue manager after construction: three empty queues of the same
\* capacity, both flags down.
QueueManagerInit ==
    /\ maxsize \in 1..MaxCap
    /\ stage1_to_stage2 = << >>
    /\ stage2_to_stage3 = << >>
    /\ feedback = << >>
    /\ done_producing = FALSE
    /\ done_processing = FALSE

\* Stage1.__init__ (lines 8-11); run has not started.
Stage1Init ==
    /\ num_items \in 0..MaxCount
    /\ feedback_count = 0
    /\ pc1 = "l14" /\ i = 0 /\ s1_item = None /\ s1_fb = None

\* Stage2.__init__ (lines 34-36); run has not started.
Stage2Init ==
    /\ processed = 0
    /\ pc2 = "l40" /\ s2_item = None /\ s2_feedback = None

\* Stage3.__init__ (lines 67-69); run has not started.
Stage3Init ==
    /\ results = << >>
    /\ pc3 = "l73" /\ s3_item = None

Init ==
    /\ QueueManagerInit
    /\ Stage1Init
    /\ Stage2Init
    /\ Stage3Init
    /\ fb_sent = << >> /\ s2_got = 0 /\ s2_sent = 0
    /\ ch1_log = << >> /\ ch2_log = << >>

----------------------------------------------------------------------------
\* Stage1.run

\* Line 14 iterating once too often: range(self.num_items + 1).
S1_l14_OffByOne ==
    /\ pc1 = "l14"
    /\ pc1' = IF i <= num_items THEN "l15" ELSE "l26"
    /\ UNCHANGED << i, s1_item, s1_fb, feedback_count >>
    /\ UNCHANGED << paramvars, qvars, flagvars, s2vars, s3vars, histvars >>
    /\ UNCHANGED logvars

\* line 14: for i in range(self.num_items).  i holds the next value of the
\* range iterator; it advances when the loop body ends (line 24).
S1_l14 ==
    /\ pc1 = "l14"
    /\ pc1' = IF i < num_items THEN "l15" ELSE "l26"
    /\ UNCHANGED << i, s1_item, s1_fb, feedback_count >>
    /\ UNCHANGED << paramvars, qvars, flagvars, s2vars, s3vars, histvars >>
    /\ UNCHANGED logvars

\* line 15: item = {"id": i, "value": i * 10, "adjustments": []}
S1_l15 ==
    /\ pc1 = "l15"
    /\ s1_item' = NewItem(i)
    /\ pc1' = "l18"
    /\ UNCHANGED << i, s1_fb, feedback_count >>
    /\ UNCHANGED << paramvars, qvars, flagvars, s2vars, s3vars, histvars >>
    /\ UNCHANGED logvars

\* Line 18 with the test inverted: while self.queue_mgr.feedback.empty().
S1_l18_Inverted ==
    /\ pc1 = "l18"
    /\ pc1' = IF QEmpty(feedback) THEN "l19" ELSE "l24"
    /\ UNCHANGED << i, s1_item, s1_fb, feedback_count >>
    /\ UNCHANGED << paramvars, qvars, flagvars, s2vars, s3vars, histvars >>
    /\ UNCHANGED logvars

\* line 18: while not self.queue_mgr.feedback.empty()
S1_l18 ==
    /\ pc1 = "l18"
    /\ pc1' = IF ~QEmpty(feedback) THEN "l19" ELSE "l24"
    /\ UNCHANGED << i, s1_item, s1_fb, feedback_count >>
    /\ UNCHANGED << paramvars, qvars, flagvars, s2vars, s3vars, histvars >>
    /\ UNCHANGED logvars

\* line 19: fb = self.queue_mgr.feedback.get()
S1_l19 ==
    /\ pc1 = "l19"
    /\ ~QEmpty(feedback)
    /\ s1_fb' = Head(feedback)
    /\ feedback' = Tail(feedback)
    /\ pc1' = "l20"
    /\ UNCHANGED << i, s1_item, feedback_count >>
    /\ UNCHANGED << paramvars, stage1_to_stage2, stage2_to_stage3, flagvars,
                    s2vars, s3vars, histvars >>
    /\ UNCHANGED logvars

\* line 20: self.feedback_count += 1
S1_l20 ==
    /\ pc1 = "l20"
    /\ feedback_count' = feedback_count + 1
    /\ pc1' = "l22"
    /\ UNCHANGED << i, s1_item, s1_fb >>
    /\ UNCHANGED << paramvars, qvars, flagvars, s2vars, s3vars, histvars >>
    /\ UNCHANGED logvars

\* Line 22 overwriting the list: item["adjustments"] = [fb].
S1_l22_Overwrite ==
    /\ pc1 = "l22"
    /\ s1_item' = [s1_item EXCEPT !.adjustments = << s1_fb >>]
    /\ pc1' = "l18"
    /\ UNCHANGED << i, s1_fb, feedback_count >>
    /\ UNCHANGED << paramvars, qvars, flagvars, s2vars, s3vars, histvars >>
    /\ UNCHANGED logvars

\* Line 22 applying the record to the item sent last, when that item is
\* still waiting in stage1_to_stage2, instead of the item being built.
S1_l22_Retroactive ==
    /\ pc1 = "l22"
    /\ IF stage1_to_stage2 # << >> /\ stage1_to_stage2[Len(stage1_to_stage2)] # None
         THEN /\ stage1_to_stage2' =
                    [stage1_to_stage2 EXCEPT ![Len(stage1_to_stage2)].adjustments = Append(@, s1_fb)]
              /\ UNCHANGED s1_item
         ELSE /\ s1_item' = [s1_item EXCEPT !.adjustments = Append(@, s1_fb)]
              /\ UNCHANGED stage1_to_stage2
    /\ pc1' = "l18"
    /\ UNCHANGED << i, s1_fb, feedback_count >>
    /\ UNCHANGED << paramvars, stage2_to_stage3, feedback, flagvars, s2vars, s3vars, histvars >>
    /\ UNCHANGED logvars

\* line 22: item["adjustments"].append(fb)
S1_l22 ==
    /\ pc1 = "l22"
    /\ s1_item' = [s1_item EXCEPT !.adjustments = Append(@, s1_fb)]
    /\ pc1' = "l18"
    /\ UNCHANGED << i, s1_fb, feedback_count >>
    /\ UNCHANGED << paramvars, qvars, flagvars, s2vars, s3vars, histvars >>
    /\ UNCHANGED logvars

\* Line 24 not waiting for room in the queue.
S1_l24_NoBlock ==
    /\ pc1 = "l24"
    /\ stage1_to_stage2' = Append(stage1_to_stage2, s1_item)
    /\ i' = i + 1
    /\ pc1' = "l14"
    /\ UNCHANGED << s1_item, s1_fb, feedback_count >>
    /\ UNCHANGED << paramvars, stage2_to_stage3, feedback, flagvars,
                    s2vars, s3vars, histvars >>
    /\ ch1_log' = Append(ch1_log, s1_item)
    /\ UNCHANGED ch2_log

\* line 24: self.queue_mgr.stage1_to_stage2.put(item), then the next iteration
S1_l24 ==
    /\ pc1 = "l24"
    /\ ~QFull(stage1_to_stage2)
    /\ stage1_to_stage2' = Append(stage1_to_stage2, s1_item)
    /\ i' = i + 1
    /\ pc1' = "l14"
    /\ UNCHANGED << s1_item, s1_fb, feedback_count >>
    /\ UNCHANGED << paramvars, stage2_to_stage3, feedback, flagvars,
                    s2vars, s3vars, histvars >>
    /\ ch1_log' = Append(ch1_log, s1_item)
    /\ UNCHANGED ch2_log

\* Line 26 setting the other flag: self.queue_mgr.done_processing = True.
S1_l26_WrongFlag ==
    /\ pc1 = "l26"
    /\ done_processing' = TRUE
    /\ pc1' = "l28"
    /\ UNCHANGED << i, s1_item, s1_fb, feedback_count >>
    /\ UNCHANGED << paramvars, qvars, done_producing, s2vars, s3vars, histvars >>
    /\ UNCHANGED logvars

\* Line 26 sending the sentinel too (it is then sent twice).
S1_l26_AlsoSentinel ==
    /\ pc1 = "l26"
    /\ ~QFull(stage1_to_stage2)
    /\ done_producing' = TRUE
    /\ stage1_to_stage2' = Append(stage1_to_stage2, None)
    /\ ch1_log' = Append(ch1_log, None)
    /\ pc1' = "l28"
    /\ UNCHANGED << i, s1_item, s1_fb, feedback_count >>
    /\ UNCHANGED << paramvars, stage2_to_stage3, feedback, done_processing,
                    s2vars, s3vars, histvars, ch2_log >>

\* line 26: self.queue_mgr.done_producing = True
S1_l26 ==
    /\ pc1 = "l26"
    /\ done_producing' = TRUE
    /\ pc1' = "l28"
    /\ UNCHANGED << i, s1_item, s1_fb, feedback_count >>
    /\ UNCHANGED << paramvars, qvars, done_processing, s2vars, s3vars, histvars >>
    /\ UNCHANGED logvars

\* Line 28 left out: Stage1 returns without sending the sentinel.
S1_l28_NoSentinel ==
    /\ pc1 = "l28"
    /\ pc1' = "stopped"
    /\ UNCHANGED << i, s1_item, s1_fb, feedback_count >>
    /\ UNCHANGED << paramvars, qvars, flagvars, s2vars, s3vars, histvars >>
    /\ UNCHANGED logvars

\* line 28: self.queue_mgr.stage1_to_stage2.put(None), then return
S1_l28 ==
    /\ pc1 = "l28"
    /\ ~QFull(stage1_to_stage2)
    /\ stage1_to_stage2' = Append(stage1_to_stage2, None)
    /\ pc1' = "stopped"
    /\ UNCHANGED << i, s1_item, s1_fb, feedback_count >>
    /\ UNCHANGED << paramvars, stage2_to_stage3, feedback, flagvars,
                    s2vars, s3vars, histvars >>
    /\ ch1_log' = Append(ch1_log, None)
    /\ UNCHANGED ch2_log

Stage1 ==
    \/ S1_l14 \/ S1_l15 \/ S1_l18 \/ S1_l19 \/ S1_l20
    \/ S1_l22 \/ S1_l24 \/ S1_l26 \/ S1_l28

----------------------------------------------------------------------------
\* Stage2.run

\* line 40: item = self.queue_mgr.stage1_to_stage2.get()
S2_l40 ==
    /\ pc2 = "l40"
    /\ ~QEmpty(stage1_to_stage2)
    /\ s2_item' = Head(stage1_to_stage2)
    /\ stage1_to_stage2' = Tail(stage1_to_stage2)
    /\ s2_got' = IF Head(stage1_to_stage2) = None THEN s2_got ELSE s2_got + 1
    /\ pc2' = "l41"
    /\ UNCHANGED << s2_feedback, processed >>
    /\ UNCHANGED << paramvars, stage2_to_stage3, feedback, flagvars,
                    s1vars, s3vars, fb_sent, s2_sent >>
    /\ UNCHANGED logvars

\* Lines 41-42 leaving the loop on the flag as well:
\* if item is None or self.queue_mgr.done_producing: break.
S2_l41_FlagBreak ==
    /\ pc2 = "l41"
    /\ pc2' = IF s2_item = None \/ done_producing THEN "l60" ELSE "l45"
    /\ UNCHANGED << s2_item, s2_feedback, processed >>
    /\ UNCHANGED << paramvars, qvars, flagvars, s1vars, s3vars, histvars >>
    /\ UNCHANGED logvars

\* lines 41-42: if item is None: break
S2_l41 ==
    /\ pc2 = "l41"
    /\ pc2' = IF s2_item = None THEN "l60" ELSE "l45"
    /\ UNCHANGED << s2_item, s2_feedback, processed >>
    /\ UNCHANGED << paramvars, qvars, flagvars, s1vars, s3vars, histvars >>
    /\ UNCHANGED logvars

\* line 45: item["value"] = item["value"] * 2 + 1
S2_l45 ==
    /\ pc2 = "l45"
    /\ s2_item' = [s2_item EXCEPT !.value = Transform(@)]
    /\ pc2' = "l46"
    /\ UNCHANGED << s2_feedback, processed >>
    /\ UNCHANGED << paramvars, qvars, flagvars, s1vars, s3vars, histvars >>
    /\ UNCHANGED logvars

\* Line 46 storing the wrong flag: item["processed"] = False.
S2_l46_False ==
    /\ pc2 = "l46"
    /\ s2_item' = [s2_item EXCEPT !.processed = FALSE]
    /\ pc2' = "l47"
    /\ UNCHANGED << s2_feedback, processed >>
    /\ UNCHANGED << paramvars, qvars, flagvars, s1vars, s3vars, histvars >>
    /\ UNCHANGED logvars

\* line 46: item["processed"] = True
S2_l46 ==
    /\ pc2 = "l46"
    /\ s2_item' = [s2_item EXCEPT !.processed = TRUE]
    /\ pc2' = "l47"
    /\ UNCHANGED << s2_feedback, processed >>
    /\ UNCHANGED << paramvars, qvars, flagvars, s1vars, s3vars, histvars >>
    /\ UNCHANGED logvars

\* Line 47 left out: the counter is not incremented.
S2_l47_NoIncrement ==
    /\ pc2 = "l47"
    /\ pc2' = "l50"
    /\ UNCHANGED << s2_item, s2_feedback, processed >>
    /\ UNCHANGED << paramvars, qvars, flagvars, s1vars, s3vars, histvars >>
    /\ UNCHANGED logvars

\* line 47: self.processed += 1
S2_l47 ==
    /\ pc2 = "l47"
    /\ processed' = processed + 1
    /\ pc2' = "l50"
    /\ UNCHANGED << s2_item, s2_feedback >>
    /\ UNCHANGED << paramvars, qvars, flagvars, s1vars, s3vars, histvars >>
    /\ UNCHANGED logvars

\* lines 50-54: feedback = {"from_item": ..., "suggestion": ..., "metric": ...}
S2_l50 ==
    /\ pc2 = "l50"
    /\ s2_feedback' = NewFeedback(s2_item, processed)
    /\ pc2' = "l55"
    /\ UNCHANGED << s2_item, processed >>
    /\ UNCHANGED << paramvars, qvars, flagvars, s1vars, s3vars, histvars >>
    /\ UNCHANGED logvars

\* Line 55 dropping the record when the queue is full (put_nowait, Full
\* swallowed).
S2_l55_DropWhenFull ==
    /\ pc2 = "l55"
    /\ IF QFull(feedback)
         THEN UNCHANGED << feedback, fb_sent >>
         ELSE /\ feedback' = Append(feedback, s2_feedback)
              /\ fb_sent' = Append(fb_sent, s2_feedback)
    /\ pc2' = "l58"
    /\ UNCHANGED << s2_item, s2_feedback, processed >>
    /\ UNCHANGED << paramvars, stage1_to_stage2, stage2_to_stage3, flagvars,
                    s1vars, s3vars, s2_got, s2_sent >>
    /\ UNCHANGED logvars

\* line 55: self.queue_mgr.feedback.put(feedback)
S2_l55 ==
    /\ pc2 = "l55"
    /\ ~QFull(feedback)
    /\ feedback' = Append(feedback, s2_feedback)
    /\ fb_sent' = Append(fb_sent, s2_feedback)
    /\ pc2' = "l58"
    /\ UNCHANGED << s2_item, s2_feedback, processed >>
    /\ UNCHANGED << paramvars, stage1_to_stage2, stage2_to_stage3, flagvars,
                    s1vars, s3vars, s2_got, s2_sent >>
    /\ UNCHANGED logvars

\* line 58: self.queue_mgr.stage2_to_stage3.put(item), then the next iteration
S2_l58 ==
    /\ pc2 = "l58"
    /\ ~QFull(stage2_to_stage3)
    /\ stage2_to_stage3' = Append(stage2_to_stage3, s2_item)
    /\ s2_sent' = s2_sent + 1
    /\ pc2' = "l40"
    /\ UNCHANGED << s2_item, s2_feedback, processed >>
    /\ UNCHANGED << paramvars, stage1_to_stage2, feedback, flagvars,
                    s1vars, s3vars, fb_sent, s2_got >>
    /\ ch2_log' = Append(ch2_log, s2_item)
    /\ UNCHANGED ch1_log

\* line 60: self.queue_mgr.done_processing = True
S2_l60 ==
    /\ pc2 = "l60"
    /\ done_processing' = TRUE
    /\ pc2' = "l61"
    /\ UNCHANGED << s2_item, s2_feedback, processed >>
    /\ UNCHANGED << paramvars, qvars, done_producing, s1vars, s3vars, histvars >>
    /\ UNCHANGED logvars

\* Line 61 sending the sentinel on the feedback queue as well.
S2_l61_AlsoFeedback ==
    /\ pc2 = "l61"
    /\ ~QFull(stage2_to_stage3)
    /\ ~QFull(feedback)
    /\ stage2_to_stage3' = Append(stage2_to_stage3, None)
    /\ feedback' = Append(feedback, None)
    /\ pc2' = "stopped"
    /\ UNCHANGED << s2_item, s2_feedback, processed >>
    /\ UNCHANGED << paramvars, stage1_to_stage2, flagvars,
                    s1vars, s3vars, histvars >>
    /\ ch2_log' = Append(ch2_log, None)
    /\ UNCHANGED ch1_log

\* line 61: self.queue_mgr.stage2_to_stage3.put(None), then return
S2_l61 ==
    /\ pc2 = "l61"
    /\ ~QFull(stage2_to_stage3)
    /\ stage2_to_stage3' = Append(stage2_to_stage3, None)
    /\ pc2' = "stopped"
    /\ UNCHANGED << s2_item, s2_feedback, processed >>
    /\ UNCHANGED << paramvars, stage1_to_stage2, feedback, flagvars,
                    s1vars, s3vars, histvars >>
    /\ ch2_log' = Append(ch2_log, None)
    /\ UNCHANGED ch1_log

Stage2 ==
    \/ S2_l40 \/ S2_l41 \/ S2_l45 \/ S2_l46 \/ S2_l47
    \/ S2_l50 \/ S2_l55 \/ S2_l58 \/ S2_l60 \/ S2_l61

----------------------------------------------------------------------------
\* Stage3.run

\* line 73: item = self.queue_mgr.stage2_to_stage3.get()
S3_l73 ==
    /\ pc3 = "l73"
    /\ ~QEmpty(stage2_to_stage3)
    /\ s3_item' = Head(stage2_to_stage3)
    /\ stage2_to_stage3' = Tail(stage2_to_stage3)
    /\ pc3' = "l74"
    /\ UNCHANGED results
    /\ UNCHANGED << paramvars, stage1_to_stage2, feedback, flagvars,
                    s1vars, s2vars, histvars >>
    /\ UNCHANGED logvars

\* lines 74-75: if item is None: break (and return)
S3_l74 ==
    /\ pc3 = "l74"
    /\ pc3' = IF s3_item = None THEN "stopped" ELSE "l76"
    /\ UNCHANGED << s3_item, results >>
    /\ UNCHANGED << paramvars, qvars, flagvars, s1vars, s2vars, histvars >>
    /\ UNCHANGED logvars

\* Line 76 collecting a stripped copy: the adjustments are cleared.
S3_l76_Strips ==
    /\ pc3 = "l76"
    /\ results' = Append(results, [s3_item EXCEPT !.adjustments = << >>])
    /\ pc3' = "l73"
    /\ UNCHANGED s3_item
    /\ UNCHANGED << paramvars, qvars, flagvars, s1vars, s2vars, histvars >>
    /\ UNCHANGED logvars

\* Line 76 inserting at the front: self.results.insert(0, item).
S3_l76_Prepend ==
    /\ pc3 = "l76"
    /\ results' = << s3_item >> \o results
    /\ pc3' = "l73"
    /\ UNCHANGED s3_item
    /\ UNCHANGED << paramvars, qvars, flagvars, s1vars, s2vars, histvars >>
    /\ UNCHANGED logvars

\* line 76: self.results.append(item)
S3_l76 ==
    /\ pc3 = "l76"
    /\ results' = Append(results, s3_item)
    /\ pc3' = "l73"
    /\ UNCHANGED s3_item
    /\ UNCHANGED << paramvars, qvars, flagvars, s1vars, s2vars, histvars >>
    /\ UNCHANGED logvars

Stage3 == S3_l73 \/ S3_l74 \/ S3_l76

----------------------------------------------------------------------------
Next == Stage1 \/ Stage2 \/ Stage3

Spec == Init /\ [][Next]_vars

\* Each stage is a thread of its own: a stage that can take a step
\* eventually takes one.
FairSpec == Spec /\ WF_vars(Stage1) /\ WF_vars(Stage2) /\ WF_vars(Stage3)

AllStopped == pc1 = "stopped" /\ pc2 = "stopped" /\ pc3 = "stopped"

----------------------------------------------------------------------------
\* Helpers of the properties.

\* The elements of a sequence.
Range(q) == { q[n] : n \in 1..Len(q) }

\* The work items of a queue (everything but the sentinel).
ItemsOf(q) == { e \in Range(q) : e # None }

\* Every work item that exists: the ones the stages hold and the queued ones.
AllItems ==
    ({s1_item, s2_item, s3_item} \ {None})
        \cup ItemsOf(stage1_to_stage2) \cup ItemsOf(stage2_to_stage3) \cup ItemsOf(results)

IsFeedbackRecord(e) ==
    /\ e # None
    /\ DOMAIN e = {"from_item", "suggestion", "metric"}
    /\ e.from_item \in Nat
    /\ e.metric \in Nat
    /\ e.suggestion = "increase_rate"

----------------------------------------------------------------------------
\* C1: every run ends with all three stages STOPPED; in particular no
\* reachable state has a stage that is not STOPPED while no stage can take a
\* step.
C1_NoStuckStage == AllStopped \/ ENABLED Next

\* C2: Stage3.results always holds the work items with ids 0,1,...,k-1 in that
\* order for some k <= num_items, never the sentinel, and k = num_items once
\* all three stages are STOPPED.
C2_InOrderDelivery ==
    /\ Len(results) <= num_items
    /\ \A k \in 1..Len(results) : results[k] # None /\ results[k].id = k - 1
    /\ AllStopped => Len(results) = num_items

C2_Witness == AllStopped /\ num_items >= 3 /\ Len(results) = num_items

\* C3: every work item in stage2_to_stage3 or in Stage3.results is processed
\* and has value 2 * (id * 10) + 1, every work item in stage1_to_stage2 has
\* value id * 10 and is not processed; so the (id, value, processed) triples of
\* the final result depend on num_items only.
C3_TransformInvariant ==
    /\ \A it \in ItemsOf(stage2_to_stage3) \cup ItemsOf(results) :
          it.processed = TRUE /\ it.value = 2 * (it.id * 10) + 1
    /\ \A it \in ItemsOf(stage1_to_stage2) :
          it.processed = FALSE /\ it.value = it.id * 10
    /\ AllStopped =>
          [k \in 1..Len(results) |-> << results[k].id, results[k].value, results[k].processed >>]
            = [k \in 1..num_items |-> << k - 1, 20 * (k - 1) + 1, TRUE >>]

C3_Witness ==
    /\ ItemsOf(stage1_to_stage2) # {}
    /\ ItemsOf(stage2_to_stage3) # {}
    /\ \E k \in 1..Len(results) : results[k].id >= 1

\* C4: once Stage2.run has returned, the number of feedback records it ever
\* put on the feedback queue equals the number of work items it took from
\* stage1_to_stage2, which equals num_items.
C4_FeedbackCount ==
    pc2 = "stopped" => Len(fb_sent) = s2_got /\ s2_got = num_items

C4_Witness ==
    /\ pc2 = "stopped"
    /\ num_items >= 2
    /\ Len(fb_sent) = num_items
    /\ feedback_count < num_items

\* C5: every feedback record in the adjustments of a work item with id n comes
\* from an item with an id strictly less than n.
C5_FeedbackCausality ==
    \A it \in AllItems :
        \A k \in 1..Len(it.adjustments) : it.adjustments[k].from_item < it.id

C5_Witness ==
    \E k \in 1..Len(results) :
        /\ Len(results[k].adjustments) >= 2
        /\ results[k].adjustments[1].from_item < results[k].id
\* C6: with num_items = 0, Stage1 puts nothing but the sentinel on
\* stage1_to_stage2, Stage2 takes no work item, produces no feedback record and
\* passes the sentinel on to Stage3, Stage3.results stays empty, and under fair
\* scheduling all three stages eventually are STOPPED.
C6_EmptyRun ==
    /\ [](num_items = 0 =>
            /\ Range(stage1_to_stage2) \subseteq {None}
            /\ Range(stage2_to_stage3) \subseteq {None}
            /\ fb_sent = << >> /\ feedback = << >>
            /\ s2_got = 0 /\ s2_sent = 0 /\ processed = 0
            /\ results = << >>)
    /\ ((num_items = 0) ~>
            (AllStopped /\ s2_item = None /\ s3_item = None /\ results = << >>))

C6_Witness ==
    /\ num_items = 0
    /\ AllStopped
    /\ s2_item = None /\ s3_item = None
    /\ results = << >> /\ fb_sent = << >>

\* C7: with num_items = 1 and capacity 1, the feedback queue is empty whenever
\* Stage1 checks it for item 0, and the final Stage3.results is exactly the
\* item with id 0, value 1, processed true and no adjustments.
C7_SingleItem ==
    (num_items = 1 /\ maxsize = 1) =>
        /\ (pc1 \in {"l18", "l19"} /\ i = 0) => feedback = << >>
        /\ AllStopped =>
              results = << [id |-> 0, value |-> 1, adjustments |-> << >>, processed |-> TRUE] >>

C7_Witness ==
    /\ num_items = 1 /\ maxsize = 1
    /\ AllStopped
    /\ Len(results) = 1
    /\ fb_sent # << >>

\* C8: whenever Stage1 is at its feedback.get() the feedback queue is not
\* empty, so the get returns at once; Stage1 can only be blocked at the puts on
\* stage1_to_stage2 (lines 24 and 28).
C8_NoBlockOnFeedback ==
    /\ pc1 = "l19" => ~QEmpty(feedback)
    /\ pc1 \notin {"l24", "l28", "stopped"} => ENABLED Stage1

C8_Witness == pc1 = "l19" /\ Len(feedback) >= 1 /\ i >= 1

\* C9: the sentinel None is never on the feedback queue: every element of the
\* feedback queue and of every item's adjustments is a feedback record.
C9_NoMarkerOnFeedback ==
    /\ \A e \in Range(feedback) : IsFeedbackRecord(e)
    /\ \A e \in Range(fb_sent) : IsFeedbackRecord(e)
    /\ \A it \in AllItems : \A e \in Range(it.adjustments) : IsFeedbackRecord(e)

C9_Witness ==
    /\ pc2 = "stopped"
    /\ feedback # << >>
    /\ \E it \in AllItems : it.adjustments # << >>
    /\ None \in Range(stage2_to_stage3)

\* C10: Stage2 puts an item's feedback record on the feedback queue before it
\* puts the item on stage2_to_stage3: the number of feedback records ever put
\* is at least the number of work items ever put on stage2_to_stage3, and every
\* item in stage2_to_stage3 or in Stage3.results (or held by Stage3) has its
\* feedback record among the records put so far.
C10_FeedbackBeforeForward ==
    /\ Len(fb_sent) >= s2_sent
    /\ \A it \in ItemsOf(stage2_to_stage3) \cup ItemsOf(results) \cup ({s3_item} \ {None}) :
          \E k \in 1..Len(fb_sent) : fb_sent[k].from_item = it.id
    /\ pc2 = "l58" => Len(fb_sent) = s2_sent + 1 /\ fb_sent[Len(fb_sent)].from_item = s2_item.id

C10_Witness ==
    /\ pc2 = "l58"
    /\ ItemsOf(stage2_to_stage3) # {}
    /\ Len(results) >= 1
\* The work items of a sequence, in order.
ItemSeq(q) == SelectSeq(q, LAMBDA e : e # None)

\* The number of sentinels in a sequence.
Markers(q) == Len(q) - Len(ItemSeq(q))

\* C11: on each forward queue the sentinel is put at most once, after the
\* stage's input is exhausted (Stage1: after its num_items items; Stage2:
\* after it took the sentinel from stage1_to_stage2, having forwarded every
\* item it took), and nothing is put after it; a STOPPED stage stays STOPPED
\* and performs no queue operation any more.
C11_MarkerDiscipline ==
    /\ [](/\ Markers(ch1_log) <= 1
          /\ Markers(ch2_log) <= 1
          /\ Markers(ch1_log) = 1 =>
                /\ ch1_log[Len(ch1_log)] = None
                /\ Len(ch1_log) = num_items + 1
                /\ pc1 = "stopped"
          /\ Markers(ch2_log) = 1 =>
                /\ ch2_log[Len(ch2_log)] = None
                /\ Markers(ch1_log) = 1 /\ None \notin Range(stage1_to_stage2)
                /\ s2_item = None
                /\ Len(ch2_log) = s2_got + 1
                /\ pc2 = "stopped"
          /\ pc1 = "stopped" => Markers(ch1_log) = 1
          /\ pc2 = "stopped" => Markers(ch2_log) = 1)
    /\ [][/\ pc1 = "stopped" =>
                /\ pc1' = "stopped"
                /\ ch1_log' = ch1_log
                /\ Len(feedback') >= Len(feedback)
          /\ pc2 = "stopped" =>
                /\ pc2' = "stopped"
                /\ ch2_log' = ch2_log /\ fb_sent' = fb_sent
                /\ Len(stage1_to_stage2') >= Len(stage1_to_stage2)
          /\ pc3 = "stopped" =>
                /\ pc3' = "stopped"
                /\ Len(stage2_to_stage3') >= Len(stage2_to_stage3)]_vars

C11_Witness ==
    /\ AllStopped
    /\ num_items >= 2
    /\ Markers(ch1_log) = 1 /\ Markers(ch2_log) = 1
    /\ Len(ch2_log) = num_items + 1

\* The number of work items Stage3 has taken from stage2_to_stage3.
S3Got == Len(results) + (IF pc3 \in {"l74", "l76"} /\ s3_item # None THEN 1 ELSE 0)

\* C12: no queue ever holds more than its capacity, and the number of work
\* items Stage1 has put on stage1_to_stage2 minus the number Stage3 has taken
\* from stage2_to_stage3 is at most 2 * capacity + 1.
C12_Backpressure ==
    /\ Len(stage1_to_stage2) <= maxsize
    /\ Len(stage2_to_stage3) <= maxsize
    /\ Len(feedback) <= maxsize
    /\ Len(ItemSeq(ch1_log)) - S3Got <= 2 * maxsize + 1

C12_Witness ==
    /\ Len(ItemSeq(ch1_log)) - S3Got = 2 * maxsize + 1
    /\ Len(stage1_to_stage2) = maxsize
    /\ Len(stage2_to_stage3) = maxsize
    /\ pc1 = "l24"
\* Stage1 is building an item that it has not put on stage1_to_stage2 yet.
S1Building == pc1 \in {"l18", "l19", "l20", "l22", "l24"}

\* The adjustments of the item with id n: as they were when Stage1 put the
\* item, or those of the item Stage1 is building.
AdjOf(n) ==
    IF n < Len(ItemSeq(ch1_log)) THEN ItemSeq(ch1_log)[n + 1].adjustments
    ELSE IF S1Building /\ s1_item.id = n THEN s1_item.adjustments
    ELSE << >>

\* The adjustments of the items 0 .. n-1 one after the other.
RECURSIVE AdjConcat(_)
AdjConcat(n) == IF n = 0 THEN << >> ELSE AdjConcat(n - 1) \o AdjOf(n - 1)

IsPrefix(p, q) == Len(p) <= Len(q) /\ \A n \in 1..Len(p) : p[n] = q[n]

\* C13: a feedback record is appended to the item Stage1 is building when it
\* takes the record, never to an item already put on stage1_to_stage2 (every
\* copy of a put item keeps the adjustments it was put with), and the
\* adjustments of the items 0,1,2,... one after the other are a prefix of the
\* feedback records in the order Stage2 put them, so no record is in two
\* items, skipped or out of order.
C13_BatchDrain ==
    /\ \A it \in AllItems :
          it.id < Len(ItemSeq(ch1_log)) =>
              it.adjustments = ItemSeq(ch1_log)[it.id + 1].adjustments
    /\ pc1 = "l22" => S1Building /\ s1_item.id = i /\ Len(ItemSeq(ch1_log)) = i
    /\ IsPrefix(AdjConcat(num_items), fb_sent)
    /\ \A n \in 1..Len(fb_sent) : fb_sent[n].from_item = n - 1

C13_Witness ==
    /\ \E n \in 1..(num_items - 1) : Len(AdjOf(n)) >= 2
    /\ \E n, m \in 0..(num_items - 1) : n # m /\ AdjOf(n) # << >> /\ AdjOf(m) # << >>
    /\ Len(AdjConcat(num_items)) >= 3
\* One step of a FIFO queue: nothing, the head taken, or one element added
\* at the end; the elements inside are left as they are.
QStep(q, r) ==
    \/ r = q
    \/ q # << >> /\ r = Tail(q)
    \/ Len(r) = Len(q) + 1 /\ SubSeq(r, 1, Len(q)) = q

\* C15: a work item changes only while a stage holds it.  Every step leaves
\* the elements inside stage1_to_stage2, stage2_to_stage3 and results as they
\* are and hands items over unchanged; Stage1 changes only the adjustments,
\* and only of the item it has not put yet; Stage2 changes only value and
\* processed, and only of the item it took and has not forwarded yet; Stage3
\* appends the item it took as it is.
C15_Ownership ==
    [][/\ QStep(stage1_to_stage2, stage1_to_stage2')
       /\ QStep(stage2_to_stage3, stage2_to_stage3')
       /\ results' = results \/ (pc3 = "l76" /\ results' = Append(results, s3_item))
       /\ Len(stage1_to_stage2') > Len(stage1_to_stage2) =>
             stage1_to_stage2'[Len(stage1_to_stage2')] \in {s1_item, None}
       /\ Len(stage2_to_stage3') > Len(stage2_to_stage3) =>
             stage2_to_stage3'[Len(stage2_to_stage3')] \in {s2_item, None}
       /\ s1_item' # s1_item =>
             \/ pc1 = "l15"
             \/ /\ pc1 = "l22"
                /\ s1_item.id = Len(ItemSeq(ch1_log))
                /\ s1_item' = [s1_item EXCEPT !.adjustments = s1_item'.adjustments]
       /\ s2_item' # s2_item =>
             \/ pc2 = "l40" /\ s2_item' = Head(stage1_to_stage2)
             \/ /\ pc2 \in {"l45", "l46"}
                /\ s2_got = s2_sent + 1
                /\ s2_item' = [s2_item EXCEPT !.value = s2_item'.value,
                                              !.processed = s2_item'.processed]
       /\ s3_item' # s3_item => pc3 = "l73" /\ s3_item' = Head(stage2_to_stage3)
      ]_vars

C15_Witness ==
    /\ ItemsOf(stage1_to_stage2) # {}
    /\ ItemsOf(stage2_to_stage3) # {}
    /\ results # << >>
    /\ pc2 = "l46" /\ s2_item.value = Transform(s2_item.id * 10)
    /\ \E it \in ItemsOf(stage1_to_stage2) : it.adjustments # << >>
\* C16: done_producing is written by Stage1 only and done_processing by
\* Stage2 only, each goes from false to true once, at that stage's exit (lines
\* 26 and 60), and is never reset; no other step changes a flag; and a stage
\* leaves its loop exactly when the count is exhausted (Stage1) or the
\* sentinel was taken (Stage2, Stage3), whatever the flags are.
C16_AdvisoryFlags ==
    /\ [](/\ done_producing = (pc1 \in {"l28", "stopped"})
          /\ done_processing = (pc2 \in {"l61", "stopped"})
          /\ pc1 \in {"l26", "l28", "stopped"} => i = num_items
          /\ pc2 \in {"l60", "l61", "stopped"} => s2_item = None
          /\ pc3 = "stopped" => s3_item = None)
    /\ [][/\ done_producing' # done_producing =>
                pc1 = "l26" /\ pc1' = "l28" /\ ~done_producing /\ done_producing'
          /\ done_processing' # done_processing =>
                pc2 = "l60" /\ pc2' = "l61" /\ ~done_processing /\ done_processing'
          /\ (pc1 = "l14" /\ pc1' # pc1) => ((pc1' = "l26") = (i >= num_items))
          /\ (pc2 = "l41" /\ pc2' # pc2) => ((pc2' = "l60") = (s2_item = None))
          /\ (pc3 = "l74" /\ pc3' # pc3) => ((pc3' = "stopped") = (s3_item = None))]_vars

C16_Witness ==
    /\ done_producing /\ ~done_processing
    /\ pc2 = "l41" /\ s2_item # None
    /\ num_items >= 2

\* C17: the feedback record Stage2 puts for the item with id k has from_item
\* k, suggestion "increase_rate" and metric k + 1, so the records put so far
\* have the metrics 1,2,3,... in order; Stage2.processed is the number of
\* records put so far or one more.
C17_FeedbackContents ==
    /\ \A n \in 1..Len(fb_sent) :
          fb_sent[n] = [from_item |-> n - 1, suggestion |-> "increase_rate", metric |-> n]
    /\ processed \in {Len(fb_sent), Len(fb_sent) + 1}
    /\ pc2 = "l55" =>
          s2_feedback = [from_item |-> s2_item.id, suggestion |-> "increase_rate",
                         metric |-> s2_item.id + 1]

C17_Witness ==
    /\ Len(fb_sent) >= 3
    /\ processed = Len(fb_sent) + 1
    /\ pc2 = "l55"

\* The total length of the adjustments of all items.
TotalAdj == Len(AdjConcat(num_items))

\* The part of C18 that does not depend on where Stage1 is: Stage1 never takes
\* the feedback record of the last item, feedback_count is at most
\* max(num_items - 1, 0), and once Stage2 has put the last record the feedback
\* queue is not empty any more.
C18_LastRecordStays ==
    /\ \A it \in AllItems : \A e \in Range(it.adjustments) : e.from_item # num_items - 1
    /\ s1_fb # None => s1_fb.from_item # num_items - 1
    /\ feedback_count <= (IF num_items >= 1 THEN num_items - 1 ELSE 0)
    /\ (num_items >= 1 /\ Len(fb_sent) = num_items) => feedback # << >>

\* C18 as claimed: in every reachable state Stage1.feedback_count equals the
\* total length of all adjustments lists and is at most max(num_items - 1, 0),
\* Stage1 never takes the feedback record of the last item, and the feedback
\* queue stays non-empty once Stage2 has put the last record.
C18_Original ==
    /\ feedback_count = TotalAdj
    /\ C18_LastRecordStays

\* C18 as amended: Stage1.feedback_count equals the total length of all
\* adjustments lists except between line 20 and line 22, where the record just
\* taken is counted but not appended yet and feedback_count is one more; the
\* rest as claimed.
C18_UndrainedFeedback ==
    /\ feedback_count = TotalAdj + (IF pc1 = "l22" THEN 1 ELSE 0)
    /\ C18_LastRecordStays

C18_Witness ==
    /\ AllStopped
    /\ num_items >= 3
    /\ feedback_count >= 2 /\ feedback_count = TotalAdj
    /\ feedback # << >>

\* C19: each flag is set before the matching sentinel is put: if the sentinel
\* is or was in stage1_to_stage2 then done_producing is true, if it is or was
\* in stage2_to_stage3 then done_processing is true, and done_processing
\* implies done_producing.
C19_FlagBeforeMarker ==
    /\ None \in Range(ch1_log) => done_producing
    /\ None \in Range(ch2_log) => done_processing
    /\ done_processing => done_producing

C19_Witness ==
    /\ None \in Range(ch1_log) /\ None \in Range(ch2_log)
    /\ done_producing /\ done_processing
    /\ num_items >= 1

====
